---- MODULE Spec2Model ----
(***************************************************************************)
(* State-machine model of the semantic role labelling model of             *)
(* model/srl.py (class SRL_Model) and of the evaluation entry point        *)
(* model/test_ens.py.                                                      *)
(*                                                                         *)
(* The batch producer, the Sentence objects, the numeric engine            *)
(* (session.run) and the file system are the environment.  Tensors are     *)
(* abstracted: a batch is its sentence group, its identity and the two     *)
(* dimensions the placeholders fix; the parameters are the log of the      *)
(* optimizer updates applied to them; a forward pass is a function of the  *)
(* parameters, the batch and the dropout noise.                            *)
(***************************************************************************)
EXTENDS Integers, Sequences, FiniteSets, TLC

\* Python's None and a held value v, as the sequences << >> and <<v>>.
None == << >>
Some(v) == <<v>>
Value(o) == o[1]

\* ------------------------------------------------------------------------
\* Sizes

\* args.batch_size: the leading dimension of every placeholder.
BatchSize == 2
\* vocabs['labels'].size: the width of labels_mask_placeholder.
NumRoles == 2
\* seq_length = tf.shape(words_placeholder)[1]: the padded length of a batch.
SeqLength == 2
\* args.dropout and args.recurrent_dropout, in percent (keep probabilities).
ArgsDropout == 50
ArgsRecurrentDropout == 75

\* The longest list of batches the producer yields for one split.
MaxBatches == 2
\* The number of epoch calls made on one model instance.
MaxEpochs == 3

\* ------------------------------------------------------------------------
\* Sentences (produced by the batch producer, one per predicate per sentence)

Sents == {1, 2, 3}
\* sent.parent: sentences 1 and 2 are two predicates of parent 1.
Parent(s) == IF s <= 2 THEN 1 ELSE 2
Parents == {Parent(s) : s \in Sents}

Min(a, b) == IF a <= b THEN a ELSE b

\* ------------------------------------------------------------------------
\* Batches.  A list element is the pair (sents, batch) of the producer: sents
\* is the sentence group, id stands for the tensors' contents, rows is the
\* tensors' leading dimension and mask_width the width of labels_mask.

Shapes == {<<BatchSize, NumRoles>>, <<BatchSize - 1, NumRoles>>, <<BatchSize, NumRoles + 1>>}

MkBatch(g, k, sh) == [sents |-> g, id |-> k, rows |-> sh[1], mask_width |-> sh[2]]

\* Sentence groups: the sentences of a group in increasing order, up to one
\* more than the batch has rows.
SortedSeq(S) == CHOOSE q \in [1..Cardinality(S) -> S] :
                  /\ \A a, b \in 1..Cardinality(S) : a < b => q[a] < q[b]
Groups == {SortedSeq(S) : S \in {T \in SUBSET Sents : Cardinality(T) <= BatchSize + 1}}

\* The group of the k-th batch of a corpus whose groups are not varied.
StdGroup(k) == IF k = 1 THEN <<1, 2>> ELSE IF k = 2 THEN <<3>> ELSE << >>

\* Corpora whose batches vary in shape only.
ShapeCorpora ==
  UNION {{[k \in 1..n |-> MkBatch(StdGroup(k), k, f[k])] : f \in [1..n -> Shapes]}
         : n \in 0..MaxBatches}

\* Corpora whose batches vary in their sentence groups; at most the last
\* batch is not well-formed.
GroupCorpora ==
  UNION {{[k \in 1..n |-> MkBatch(g[k], k, IF k = n THEN sh ELSE <<BatchSize, NumRoles>>)]
            : g \in [1..n -> Groups], sh \in {<<BatchSize, NumRoles>>, <<BatchSize - 1, NumRoles>>}}
         : n \in 0..MaxBatches}

VARIABLES
  \* --- SRL_Model instance
  args_restrict_labels,  \* self.args.restrict_labels
  training_batches,      \* self.training_batches: None or the cached list
  testing_batches,       \* self.testing_batches: None or the cached list
  test_batches,          \* self.test_batches
  params,                \* the trainable variables: the log of applied updates
  \* --- the running epoch call
  pc,                    \* "idle", "train" or "test"
  i,                     \* index of the next batch of the loop
  total_loss, num_batches,
  predicted_sents,
  result,                \* outcome of the last epoch call
  epochs_left,           \* epoch calls the caller still makes
  \* --- environment
  train_corpus, test_corpus,  \* what the producer yields for each split
  sent_preds,            \* predictions attached to each Sentence object
  fn_sys,                \* contents of the prediction file, None if absent
  \* --- observation of the run
  producer_calls,        \* invocations of batch_producer per split
  producer_done,         \* invocations that were consumed to the end
  calls_at_start,        \* producer_calls when the running epoch call began
  ran,                   \* batches handed to session.run by the running epoch
  add_calls,             \* add_predictions calls per Sentence in this epoch
  wrote,                 \* the running epoch call wrote the prediction file
  params_at_start,       \* params when the running epoch call began
  last_kind,             \* kind of the epoch call that ran last
  prev_eval              \* the previous completed evaluation epoch

loopVars == <<args_restrict_labels, training_batches, testing_batches, test_batches,
              params, pc, i, total_loss, num_batches, predicted_sents, result,
              epochs_left, train_corpus, test_corpus, sent_preds, fn_sys,
              producer_calls, producer_done, calls_at_start, ran, add_calls, wrote,
              params_at_start, last_kind, prev_eval>>

\* The graph run on one fed batch (lines 241-258 of srl.py)
VARIABLES
  logits,                \* the raw logits, per sentence, token and role
  labels_mask,           \* labels_mask_placeholder, per sentence and role
  softmax_logits,        \* the tensor tf.nn.softmax is applied to
  xent_logits            \* the tensor the cross-entropy is computed from

maskVars == <<logits, labels_mask, softmax_logits, xent_logits>>

\* One run of train_op (lines 271-277 of srl.py)
VARIABLES
  gvs,                   \* the gradient of the loss, per trainable variable
  clipped_gvs,           \* what tf.clip_by_value makes of it
  applied                \* what optimizer.apply_gradients was given

clipVars == <<gvs, clipped_gvs, applied>>

\* SRL_Model.__init__ and the process's standard output
VARIABLES
  ctor_pc,               \* how far __init__ has come
  args_optimizer,        \* args.optimizer
  optimizer,             \* the optimizer object made
  sys_stdout,            \* sys.stdout: "console" or "redirect"
  redirect_stdout,       \* redirect.stdout, None before Redirect()
  stdout_at_entry,       \* sys.stdout when __init__ was entered
  console,               \* the texts that reached the console
  discarded              \* the texts Redirect.write dropped

ctorVars == <<ctor_pc, args_optimizer, optimizer, sys_stdout, redirect_stdout,
              stdout_at_entry, console, discarded>>

\* test_ens.py
VARIABLES
  cli_pc,                \* how far test(args) has come
  cli_args,              \* the parsed command line
  pickled_args,          \* the contents of args.pkl
  model_args             \* model_args of test(args), None before it is loaded

cliVars == <<cli_pc, cli_args, pickled_args, model_args>>

vars == <<loopVars, maskVars, clipVars, ctorVars, cliVars>>

\* ------------------------------------------------------------------------
\* The graph as run_training_batch and run_testing_batch use it

\* feed_dict[self.use_dropout_placeholder] of run_training_batch / run_testing_batch
TrainUseDropout == 1
TestUseDropoutAsTraining == TrainUseDropout
TestUseDropout == 0
\* fetches: whether train_op is among them
TrainFetchesTrainOp == TRUE
TestFetchesTrainOpToo == TRUE
TestFetchesTrainOp == FALSE

\* dropout = 1.0 - (1.0 - args.dropout) * use_dropout_placeholder, in percent
KeepProb(rate, use_dropout) == 100 - (100 - rate) * use_dropout

\* The noise the dropout layers draw: none when both keep probabilities are 1.
DropoutNoise(use_dropout) ==
  IF KeepProb(ArgsDropout, use_dropout) = 100
     /\ KeepProb(ArgsRecurrentDropout, use_dropout) = 100
  THEN {0} ELSE {0, 1}

\* A feed is accepted when it has the placeholders' shapes.
WellFormedRowsOnly(batch) == batch.rows = BatchSize
WellFormed(batch) == batch.rows = BatchSize /\ batch.mask_width = NumRoles

\* self.loss and self.predictions for a batch
Loss(ps, batch, z) == 2 * (Len(ps) + batch.id) + z
Probabilities(ps, batch, z) ==
  [r \in 1..BatchSize |-> [params |-> ps, batch |-> batch.id, row |-> r, noise |-> z]]

\* train_op: one optimizer update computed from the batch
ApplyUpdate(ps, batch) == Append(ps, batch.id)

\* session.run(fetches, feed_dict) on a well-formed batch with noise z
SessionRun(ps, batch, z, with_train_op) ==
  [loss |-> Loss(ps, batch, z),
   probabilities |-> Probabilities(ps, batch, z),
   params |-> IF with_train_op THEN ApplyUpdate(ps, batch) ELSE ps]

\* ------------------------------------------------------------------------
\* Helpers of run_testing_epoch

\* zip(sents, probabilities): the pairs, as the number of them
ZipLenShort(sents) == Min(Len(sents), BatchSize - 1)
ZipLen(sents) == Min(Len(sents), BatchSize)

\* predicted_sents after the inner loop over the first n sentences of sents
RECURSIVE AppendParentsNoCheck(_, _, _)
AppendParentsNoCheck(ps, sents, n) ==
  IF n = 0 THEN ps
  ELSE Append(AppendParentsNoCheck(ps, sents, n - 1), Parent(sents[n]))
RECURSIVE AppendParents(_, _, _)
AppendParents(ps, sents, n) ==
  IF n = 0 THEN ps
  ELSE LET before == AppendParents(ps, sents, n - 1)
           p == Parent(sents[n])
       IN  IF \E j \in 1..Len(before) : before[j] = p THEN before ELSE Append(before, p)

\* sent.add_predictions(probs, vocabs['labels'], restrict_labels=...)
AddPredictions(preds, sents, probabilities, rl) ==
  [s \in Sents |->
     IF \E j \in 1..ZipLen(sents) : sents[j] = s
     THEN LET j == CHOOSE j \in 1..ZipLen(sents) :
                     /\ sents[j] = s
                     /\ \A k \in 1..ZipLen(sents) : sents[k] = s => k <= j
          IN  Some([probs |-> probabilities[j], restrict_labels |-> rl])
     ELSE preds[s]]

CountIn(sents, s) == Cardinality({j \in 1..ZipLen(sents) : sents[j] = s})

\* str(sent) of a parent sentence: the line shows the predictions its
\* predicate-specific sentences hold
Line(p, preds) == [parent |-> p, preds |-> [s \in {t \in Sents : Parent(t) = p} |-> preds[s]]]

\* ------------------------------------------------------------------------
\* Initial states

InitModel(rl) ==
  /\ args_restrict_labels = rl
  /\ training_batches = None
  /\ testing_batches = None
  /\ test_batches = None
  /\ params = << >>
  /\ pc = "idle"
  /\ i = 0
  /\ total_loss = 0
  /\ num_batches = 0
  /\ predicted_sents = << >>
  /\ result = [kind |-> "none"]
  /\ sent_preds = [s \in Sents |-> None]
  /\ fn_sys = None
  /\ producer_calls = [sp \in {"train", "test"} |-> 0]
  /\ producer_done = [sp \in {"train", "test"} |-> 0]
  /\ calls_at_start = [sp \in {"train", "test"} |-> 0]
  /\ ran = << >>
  /\ add_calls = [s \in Sents |-> 0]
  /\ wrote = FALSE
  /\ params_at_start = << >>
  /\ last_kind = "none"
  /\ prev_eval = None

\* The parts of the state a specification does not exercise.
MaskIdle ==
  /\ logits = << >>
  /\ labels_mask = << >>
  /\ softmax_logits = None
  /\ xent_logits = None

ClipIdle ==
  /\ gvs = None
  /\ clipped_gvs = None
  /\ applied = None

CtorDone ==
  /\ ctor_pc = "done"
  /\ args_optimizer = "adam"
  /\ optimizer = "adam"
  /\ sys_stdout = "console"
  /\ redirect_stdout = Some("console")
  /\ stdout_at_entry = "console"
  /\ console = << >>
  /\ discarded = << >>

CliIdle ==
  /\ cli_pc = "none"
  /\ cli_args = None
  /\ pickled_args = None
  /\ model_args = None

Init ==
  /\ MaskIdle /\ ClipIdle /\ CtorDone /\ CliIdle
  /\ InitModel(FALSE)
  /\ epochs_left = MaxEpochs
  /\ train_corpus \in ShapeCorpora
  /\ test_corpus \in ShapeCorpora

InitEval ==
  /\ MaskIdle /\ ClipIdle /\ CtorDone /\ CliIdle
  /\ InitModel(FALSE)
  /\ epochs_left = 2
  /\ train_corpus \in {c \in ShapeCorpora : Len(c) = 1 /\ c[1].mask_width = NumRoles}
  /\ test_corpus \in GroupCorpora

\* ------------------------------------------------------------------------
\* run_training_epoch

\* if self.training_batches is None / if self.testing_batches is None
NeedsLoadAlways(cache) == TRUE
NeedsLoad(cache) == cache = None

\* What every epoch call does on entry, whichever way it goes on.
EnterEpoch(kind) ==
  /\ total_loss' = 0
  /\ num_batches' = 0
  /\ epochs_left' = epochs_left - 1
  /\ ran' = << >>
  /\ wrote' = FALSE
  /\ params_at_start' = params
  /\ calls_at_start' = producer_calls
  /\ last_kind' = kind
  /\ prev_eval' = IF last_kind = "test" /\ result.kind = "return"
                  THEN Some([params |-> params, preds |-> sent_preds, loss |-> result.value])
                  ELSE prev_eval

\* The call has ended: its locals are gone.
LeaveEpoch(res) ==
  /\ pc' = "idle"
  /\ i' = 0
  /\ total_loss' = 0
  /\ num_batches' = 0
  /\ predicted_sents' = << >>
  /\ result' = res

\* A division that would yield 0 for an epoch without batches.
MeanLossZeroWhenEmpty(total, num) ==
  [kind |-> "return", value |-> <<total, IF num = 0 THEN 1 ELSE num>>]

\* return total_loss / num_batches
MeanLoss(total, num) ==
  IF num = 0 THEN [kind |-> "raise", error |-> "ZeroDivisionError"]
  ELSE [kind |-> "return", value |-> <<total, num>>]

\* The call up to the loop: the cache is used, or the producer is consumed
\* to its end and its batches cached.
TrainEpochBegin ==
  /\ pc = "idle" /\ epochs_left > 0
  /\ EnterEpoch("train")
  /\ pc' = "train"
  /\ i' = 1
  /\ result' = [kind |-> "none"]
  /\ IF NeedsLoad(training_batches)
     THEN /\ training_batches' = Some(train_corpus)
          /\ producer_calls' = [producer_calls EXCEPT !["train"] = @ + 1]
          /\ producer_done' = [producer_done EXCEPT !["train"] = @ + 1]
     ELSE /\ UNCHANGED <<training_batches, producer_calls, producer_done>>
  /\ UNCHANGED <<maskVars, clipVars, ctorVars, cliVars>>
  /\ UNCHANGED <<args_restrict_labels, testing_batches, test_batches, params,
                 predicted_sents, train_corpus, test_corpus, sent_preds, fn_sys,
                 add_calls>>

\* A load that would cache the batches produced before the producer raised.
TrainEpochLoadFailKeepsPartial ==
  /\ pc = "idle" /\ epochs_left > 0
  /\ NeedsLoad(training_batches)
  /\ EnterEpoch("train")
  /\ pc' = "idle"
  /\ i' = 0
  /\ result' = [kind |-> "raise", error |-> "producer"]
  /\ producer_calls' = [producer_calls EXCEPT !["train"] = @ + 1]
  /\ \E n \in 0..Len(train_corpus) : training_batches' = Some(SubSeq(train_corpus, 1, n))
  /\ UNCHANGED <<maskVars, clipVars, ctorVars, cliVars>>
  /\ UNCHANGED <<args_restrict_labels, testing_batches, test_batches,
                 params, predicted_sents, train_corpus, test_corpus, sent_preds, fn_sys,
                 producer_done, add_calls>>

\* The producer raises while the list is being built: the assignment to
\* self.training_batches is not reached.
TrainEpochLoadFail ==
  /\ pc = "idle" /\ epochs_left > 0
  /\ NeedsLoad(training_batches)
  /\ EnterEpoch("train")
  /\ pc' = "idle"
  /\ i' = 0
  /\ result' = [kind |-> "raise", error |-> "producer"]
  /\ producer_calls' = [producer_calls EXCEPT !["train"] = @ + 1]
  /\ UNCHANGED <<maskVars, clipVars, ctorVars, cliVars>>
  /\ UNCHANGED <<args_restrict_labels, training_batches, testing_batches, test_batches,
                 params, predicted_sents, train_corpus, test_corpus, sent_preds, fn_sys,
                 producer_done, add_calls>>

\* One iteration of the loop: run_training_batch on a batch the feed accepts.
TrainBatchOk ==
  /\ pc = "train" /\ i <= Len(Value(training_batches))
  /\ WellFormed(Value(training_batches)[i])
  /\ \E z \in DropoutNoise(TrainUseDropout) :
       LET r == SessionRun(params, Value(training_batches)[i], z, TrainFetchesTrainOp)
       IN  /\ params' = r.params
           /\ total_loss' = total_loss + r.loss
  /\ num_batches' = num_batches + 1
  /\ i' = i + 1
  /\ ran' = Append(ran, i)
  /\ UNCHANGED <<maskVars, clipVars, ctorVars, cliVars>>
  /\ UNCHANGED <<args_restrict_labels, training_batches, testing_batches, test_batches,
                 pc, predicted_sents, result, epochs_left, train_corpus, test_corpus,
                 sent_preds, fn_sys, producer_calls, producer_done, calls_at_start,
                 add_calls, wrote, params_at_start, last_kind, prev_eval>>

\* session.run rejects the feed: the exception leaves run_training_epoch.
TrainBatchRaise ==
  /\ pc = "train" /\ i <= Len(Value(training_batches))
  /\ ~WellFormed(Value(training_batches)[i])
  /\ LeaveEpoch([kind |-> "raise", error |-> "shape", at |-> i])
  /\ ran' = Append(ran, i)
  /\ UNCHANGED <<maskVars, clipVars, ctorVars, cliVars>>
  /\ UNCHANGED <<args_restrict_labels, training_batches, testing_batches, test_batches,
                 params, epochs_left, train_corpus, test_corpus,
                 sent_preds, fn_sys, producer_calls, producer_done, calls_at_start,
                 add_calls, wrote, params_at_start, last_kind, prev_eval>>

\* After the loop: return total_loss / num_batches
TrainEpochReturn ==
  /\ pc = "train" /\ i > Len(Value(training_batches))
  /\ LeaveEpoch(MeanLoss(total_loss, num_batches))
  /\ UNCHANGED <<maskVars, clipVars, ctorVars, cliVars>>
  /\ UNCHANGED <<args_restrict_labels, training_batches, testing_batches, test_batches,
                 params, epochs_left, train_corpus, test_corpus,
                 sent_preds, fn_sys, producer_calls, producer_done, calls_at_start, ran,
                 add_calls, wrote, params_at_start, last_kind, prev_eval>>

\* ------------------------------------------------------------------------
\* run_testing_epoch

TestEpochBegin ==
  /\ pc = "idle" /\ epochs_left > 0
  /\ EnterEpoch("test")
  /\ pc' = "test"
  /\ i' = 1
  /\ result' = [kind |-> "none"]
  /\ predicted_sents' = << >>
  /\ add_calls' = [s \in Sents |-> 0]
  /\ IF NeedsLoad(testing_batches)
     THEN /\ testing_batches' = Some(test_corpus)
          /\ producer_calls' = [producer_calls EXCEPT !["test"] = @ + 1]
          /\ producer_done' = [producer_done EXCEPT !["test"] = @ + 1]
     ELSE /\ UNCHANGED <<testing_batches, producer_calls, producer_done>>
  /\ UNCHANGED <<maskVars, clipVars, ctorVars, cliVars>>
  /\ UNCHANGED <<args_restrict_labels, training_batches, test_batches, params,
                 train_corpus, test_corpus, sent_preds, fn_sys>>

TestEpochLoadFail ==
  /\ pc = "idle" /\ epochs_left > 0
  /\ NeedsLoad(testing_batches)
  /\ EnterEpoch("test")
  /\ pc' = "idle"
  /\ i' = 0
  /\ result' = [kind |-> "raise", error |-> "producer"]
  /\ producer_calls' = [producer_calls EXCEPT !["test"] = @ + 1]
  /\ add_calls' = [s \in Sents |-> 0]
  /\ UNCHANGED <<maskVars, clipVars, ctorVars, cliVars>>
  /\ UNCHANGED <<args_restrict_labels, training_batches, testing_batches, test_batches,
                 params, predicted_sents, train_corpus, test_corpus, sent_preds, fn_sys,
                 producer_done>>

\* One iteration of the loop: run_testing_batch, then the inner loop over
\* zip(sents, probabilities).
TestBatchOk ==
  /\ pc = "test" /\ i <= Len(Value(testing_batches))
  /\ WellFormed(Value(testing_batches)[i])
  /\ LET sents == Value(testing_batches)[i].sents IN
     /\ \E z \in DropoutNoise(TestUseDropout) :
          LET r == SessionRun(params, Value(testing_batches)[i], z, TestFetchesTrainOp)
          IN  /\ params' = r.params
              /\ total_loss' = total_loss + r.loss
              /\ sent_preds' = AddPredictions(sent_preds, sents, r.probabilities,
                                              args_restrict_labels)
     /\ add_calls' = [s \in Sents |-> add_calls[s] + CountIn(sents, s)]
     /\ predicted_sents' = AppendParents(predicted_sents, sents, ZipLen(sents))
  /\ num_batches' = num_batches + 1
  /\ i' = i + 1
  /\ ran' = Append(ran, i)
  /\ UNCHANGED <<maskVars, clipVars, ctorVars, cliVars>>
  /\ UNCHANGED <<args_restrict_labels, training_batches, testing_batches, test_batches,
                 pc, result, epochs_left, train_corpus, test_corpus, fn_sys,
                 producer_calls, producer_done, calls_at_start, wrote, params_at_start,
                 last_kind, prev_eval>>

TestBatchRaise ==
  /\ pc = "test" /\ i <= Len(Value(testing_batches))
  /\ ~WellFormed(Value(testing_batches)[i])
  /\ LeaveEpoch([kind |-> "raise", error |-> "shape", at |-> i])
  /\ ran' = Append(ran, i)
  /\ UNCHANGED <<maskVars, clipVars, ctorVars, cliVars>>
  /\ UNCHANGED <<args_restrict_labels, training_batches, testing_batches, test_batches,
                 params, epochs_left, train_corpus, test_corpus,
                 sent_preds, fn_sys, producer_calls, producer_done, calls_at_start,
                 add_calls, wrote, params_at_start, last_kind, prev_eval>>

\* After the loop: self.test_batches, the prediction file, the mean loss.
TestEpochReturn ==
  /\ pc = "test" /\ i > Len(Value(testing_batches))
  /\ test_batches' = Some(num_batches)
  /\ fn_sys' = Some([j \in 1..Len(predicted_sents) |-> Line(predicted_sents[j], sent_preds)])
  /\ wrote' = TRUE
  /\ LeaveEpoch(MeanLoss(total_loss, num_batches))
  /\ UNCHANGED <<maskVars, clipVars, ctorVars, cliVars>>
  /\ UNCHANGED <<args_restrict_labels, training_batches, testing_batches,
                 params, epochs_left, train_corpus, test_corpus,
                 sent_preds, producer_calls, producer_done, calls_at_start, ran,
                 add_calls, params_at_start, last_kind, prev_eval>>

\* ------------------------------------------------------------------------

Next ==
  \/ TrainEpochBegin
  \/ TrainEpochLoadFail
  \/ TrainBatchOk
  \/ TrainBatchRaise
  \/ TrainEpochReturn
  \/ TestEpochBegin
  \/ TestEpochLoadFail
  \/ TestBatchOk
  \/ TestBatchRaise
  \/ TestEpochReturn

Spec == Init /\ [][Next]_vars

SpecEval == InitEval /\ [][Next]_vars

\* ------------------------------------------------------------------------
\* Properties of the epoch loop

Cache(sp) == IF sp = "train" THEN training_batches ELSE testing_batches
Corpus(sp) == IF sp = "train" THEN train_corpus ELSE test_corpus
Splits == {"train", "test"}
\* Producer invocations of the epoch call that ran last.
EpochCalls == producer_calls[last_kind] - calls_at_start[last_kind]

\* C1 as stated: the batch producer is invoked at most once for the training
\* split and at most once for the testing split, over any sequence of epoch
\* calls.
C1_ProducerInvokedAtMostOnce ==
  \A sp \in Splits : producer_calls[sp] <= 1

C1_CacheState ==
  \A sp \in Splits :
    /\ producer_done[sp] <= 1
    /\ (Cache(sp) = None) <=> (producer_done[sp] = 0)
    /\ Cache(sp) # None => Value(Cache(sp)) = Corpus(sp)

C1_CacheStep ==
  /\ \A sp \in Splits :
       Cache(sp) # None =>
         /\ producer_calls'[sp] = producer_calls[sp]
         /\ Cache(sp)' = Cache(sp)
  /\ last_kind' = "train" => /\ testing_batches' = testing_batches
                             /\ producer_calls'["test"] = producer_calls["test"]
  /\ last_kind' = "test" => /\ training_batches' = training_batches
                            /\ producer_calls'["train"] = producer_calls["train"]

\* C1, amended: for each split the producer is consumed to its end at most
\* once; a split's cache is unloaded exactly while no invocation for it has
\* completed, and once loaded it holds the full batch list, no later epoch
\* invokes the producer for that split again or changes the cached list; an
\* epoch of one split neither invokes the producer for the other split nor
\* touches the other split's cache.  (The producer is invoked again only
\* after an invocation that failed before the list was cached.)
C1_ProducerConsumedAtMostOnce ==
  [](C1_CacheState) /\ [][C1_CacheStep]_vars

\* A failed load, then a load, then an epoch on the cached list.
C1_Witness ==
  /\ pc = "test" /\ EpochCalls = 0
  /\ producer_calls["test"] = 2 /\ producer_done["test"] = 1
  /\ Len(Value(testing_batches)) >= 1

\* The sentence groups of the cached test batches, one after the other.
RECURSIVE Flatten(_, _)
Flatten(batches, n) ==
  IF n = 0 THEN << >> ELSE Flatten(batches, n - 1) \o batches[n].sents

\* The parents of a sequence of sentences, each at its first appearance.
RECURSIVE FirstParents(_, _)
FirstParents(q, n) ==
  IF n = 0 THEN << >>
  ELSE LET before == FirstParents(q, n - 1)
       IN  IF \E j \in 1..(n - 1) : Parent(q[j]) = Parent(q[n])
           THEN before ELSE Append(before, Parent(q[n]))

CachedSeq == Flatten(Value(testing_batches), Len(Value(testing_batches)))
CachedSents == {CachedSeq[j] : j \in 1..Len(CachedSeq)}

\* The evaluation epoch that ran last finished its loop and wrote the file.
EvalLoopDone == pc = "idle" /\ last_kind = "test" /\ wrote

ParentsWrittenOnceAfterPredictions ==
  LET lines == Value(fn_sys) IN
  /\ [j \in 1..Len(lines) |-> lines[j].parent] = FirstParents(CachedSeq, Len(CachedSeq))
  /\ \A j \in 1..Len(lines) : \A s \in CachedSents :
       Parent(s) = lines[j].parent =>
         /\ add_calls[s] >= 1
         /\ lines[j].preds[s] # None
         /\ lines[j].preds[s] = sent_preds[s]

\* No sentence group has more entries than the batch has probability rows.
GroupsFitRows ==
  \A k \in 1..Len(Value(testing_batches)) : Len(Value(testing_batches)[k].sents) <= BatchSize

EachSentInOneBatch ==
  \A s \in Sents :
    Cardinality({k \in 1..Len(Value(testing_batches)) :
                   \E j \in 1..Len(Value(testing_batches)[k].sents) :
                     Value(testing_batches)[k].sents[j] = s}) <= 1

\* C3: in an evaluation epoch that completes, add_predictions is called
\* exactly once on every Sentence of the cached test batches, given that each
\* Sentence occurs in one batch only and no sentence group has more entries
\* than the batch has probability rows.
C3_AddPredictionsOncePerSentence ==
  (EvalLoopDone /\ EachSentInOneBatch /\ GroupsFitRows) =>
    \A s \in Sents : add_calls[s] = (IF s \in CachedSents THEN 1 ELSE 0)

C3_Witness ==
  /\ EvalLoopDone /\ EachSentInOneBatch /\ GroupsFitRows /\ result.kind = "return"
  /\ CachedSents = Sents
  /\ Len(Value(testing_batches)) = 2
  /\ \A s \in Sents : add_calls[s] = 1

\* The ids of the first n batches of a list.
Ids(batches, n) == [k \in 1..n |-> batches[k].id]

\* C4: only training writes the parameters: in a training epoch the updates
\* applied so far are exactly one per batch run, in batch order (all N of
\* them when the epoch returns), and an evaluation epoch leaves the
\* parameters as they were when it began.
C4_OnlyTrainingWritesParams ==
  /\ last_kind = "test" => params = params_at_start
  /\ pc = "train" =>
       params = params_at_start \o Ids(Value(training_batches), i - 1)
  /\ (pc = "idle" /\ last_kind = "train" /\ result.kind = "return") =>
       params = params_at_start \o Ids(Value(training_batches), Len(Value(training_batches)))
  /\ (pc = "idle" /\ last_kind = "train" /\ result.kind = "raise" /\ result.error = "shape") =>
       params = params_at_start \o Ids(Value(training_batches), result.at - 1)

\* A training epoch over two batches returned, then an evaluation epoch
\* returned.
C4_Witness ==
  /\ pc = "idle" /\ last_kind = "test" /\ result.kind = "return"
  /\ training_batches # None /\ Len(Value(training_batches)) = 2
  /\ params = Ids(Value(training_batches), 2)
  /\ Len(Value(testing_batches)) = 2

EpochCache == IF last_kind = "train" THEN training_batches ELSE testing_batches
Malformed(b) == b.rows # BatchSize \/ b.mask_width # NumRoles

\* C10: a batch that is not well-formed is fatal when it is consumed: the
\* batches of an epoch are run in order, each at most once, none after a
\* batch that is not well-formed; the epoch that consumed such a batch ended
\* in failure at it, invoked the producer at most for its own load, and, if
\* an evaluation epoch, did not write the prediction file.
C10_MalformedBatchIsFatal ==
  last_kind # "none" /\ EpochCache # None =>
    LET c == Value(EpochCache) IN
    /\ ran = [k \in 1..Len(ran) |-> k]
    /\ Len(ran) <= Len(c)
    /\ \A k \in 1..Len(c) : Malformed(c[k]) => Len(ran) <= k
    /\ \A k \in 1..Len(ran) : Malformed(c[k]) =>
         /\ pc = "idle"
         /\ result = [kind |-> "raise", error |-> "shape", at |-> k]
         /\ ~wrote
         /\ EpochCalls <= 1

\* An evaluation epoch failed at the first of two cached batches.
C10_Witness ==
  /\ pc = "idle" /\ last_kind = "test"
  /\ testing_batches # None
  /\ Len(Value(testing_batches)) = 2
  /\ Malformed(Value(testing_batches)[1])
  /\ result = [kind |-> "raise", error |-> "shape", at |-> 1]
  /\ ran = <<1>>
  /\ fn_sys = None

\* ------------------------------------------------------------------------
\* A split for which the producer yields no batches

ZeroDivision == [kind |-> "raise", error |-> "ZeroDivisionError"]

\* The epoch call that ran last was over a loaded, empty cache: it ran no
\* batch and changed no parameter, and once it has ended it has raised on
\* the division by a batch count of 0; an evaluation epoch has by then set
\* self.test_batches to 0 and written an empty prediction file.
C11_EmptyState ==
  \A sp \in Splits :
    (last_kind = sp /\ Cache(sp) = Some(<< >>)) =>
      /\ ran = << >>
      /\ params = params_at_start
      /\ pc = "idle" =>
           /\ result = ZeroDivision
           /\ sp = "test" => (wrote /\ fn_sys = Some(<< >>) /\ test_batches = Some(0))
           /\ sp = "train" => ~wrote

\* An epoch call that starts on a loaded, empty cache keeps it and does not
\* invoke the producer.
C11_EmptyStep ==
  \A sp \in Splits :
    (pc = "idle" /\ Cache(sp) = Some(<< >>) /\ pc' = sp) =>
      /\ Cache(sp)' = Some(<< >>)
      /\ producer_calls' = producer_calls
      /\ producer_done' = producer_done

\* C11: when the producer yields no batches for a split, the cache is
\* loaded with the empty list and the epoch fails on the division by a batch
\* count of 0, after the empty prediction file is written (evaluation) and
\* with no parameter update (training); every later epoch of that split
\* fails the same way without invoking the producer again.
C11_EmptySplitFailsEveryEpoch ==
  [](C11_EmptyState) /\ [][C11_EmptyStep]_vars

\* A second evaluation epoch over the empty cache has failed, after a
\* training epoch over an empty cache: one producer invocation per split.
C11_Witness ==
  /\ pc = "idle" /\ last_kind = "test"
  /\ testing_batches = Some(<< >>) /\ training_batches = Some(<< >>)
  /\ result = ZeroDivision
  /\ EpochCalls = 0
  /\ producer_calls = [train |-> 1, test |-> 1]
  /\ fn_sys = Some(<< >>)
  /\ params = << >>

\* ------------------------------------------------------------------------
\* How a cache gets loaded, and what a failure leaves of it

ProducerFailure == [kind |-> "raise", error |-> "producer"]
EpochStarts(sp) == pc = "idle" /\ last_kind' = sp /\ epochs_left' = epochs_left - 1

\* A cache is unloaded until a producer invocation has been consumed to its
\* end, and a loaded cache holds everything the producer yields.
C12_LoadedState ==
  \A sp \in Splits :
    /\ Cache(sp) = None <=> producer_done[sp] = 0
    /\ Cache(sp) # None => Value(Cache(sp)) = Corpus(sp)

C12_LoadStep ==
  \A sp \in Splits :
    \* unloaded to loaded: only with a producer consumed to its end
    /\ (Cache(sp) = None /\ Cache(sp)' # None) =>
         /\ producer_done'[sp] = producer_done[sp] + 1
         /\ Cache(sp)' = Some(Corpus(sp))
    \* the producer fails while loading: the cache stays unloaded
    /\ (producer_calls'[sp] # producer_calls[sp] /\ producer_done'[sp] = producer_done[sp]) =>
         /\ Cache(sp)' = None
         /\ pc' = "idle" /\ result' = ProducerFailure
    \* an epoch on an unloaded cache invokes the producer
    /\ (EpochStarts(sp) /\ Cache(sp) = None) =>
         producer_calls'[sp] = producer_calls[sp] + 1
    \* a failure inside the batch loop leaves the cached list in place
    /\ (pc = sp /\ pc' = "idle" /\ result'.kind = "raise") =>
         /\ Cache(sp) # None
         /\ Cache(sp)' = Cache(sp)
    \* and the next epoch iterates it without invoking the producer
    /\ (EpochStarts(sp) /\ Cache(sp) # None) =>
         /\ Cache(sp)' = Cache(sp)
         /\ producer_calls' = producer_calls
         /\ pc' = sp

\* C12: a split's cache goes from unloaded to loaded only when the producer
\* has been fully consumed; a producer failure during loading leaves the
\* cache unloaded, with no partial list, so the next epoch of the split
\* invokes the producer again; a failure inside the batch loop leaves the
\* cached list in place for the next epoch.
C12_CacheLoadedOnlyWhenConsumed ==
  [](C12_LoadedState) /\ [][C12_LoadStep]_vars

\* Evaluation: the first load failed, the second epoch loaded the batches and
\* failed inside the loop, the third iterated the cached list.
C12_Witness ==
  /\ pc = "idle" /\ last_kind = "test"
  /\ producer_calls["test"] = 2 /\ producer_done["test"] = 1
  /\ EpochCalls = 0
  /\ testing_batches = Some(test_corpus)
  /\ Len(test_corpus) = 2
  /\ result = [kind |-> "raise", error |-> "shape", at |-> 2]

\* ------------------------------------------------------------------------
\* The role scorer's masking (srl.py, lines 241-258), run on one fed batch

Roles == 1..NumRoles
Tokens == 1..SeqLength
Rows == 1..BatchSize

\* Finite logits, as the matmul of bounded activations gives them.
LogitValues == {-1, 0, 2}
\* The mask holds 1.0 for a licensed role and 0.0 otherwise.
MaskValues == {0, 1}

\* masks = tf.tile(tf.expand_dims(labels_mask_placeholder, 1), (1, seq_length, 1))
TiledMasks(mask) == [b \in Rows |-> [t \in Tokens |-> mask[b]]]

\* logits = tf.multiply(logits, masks)
MaskByAddition(x, masks) ==
  [b \in Rows |-> [t \in Tokens |-> [r \in Roles |-> x[b][t][r] + (masks[b][t][r] - 1) * 100]]]
Multiply(x, masks) ==
  [b \in Rows |-> [t \in Tokens |-> [r \in Roles |-> x[b][t][r] * masks[b][t][r]]]]

\* The tensor the name logits is bound to after line 249.
BoundLogits(x, mask, restrict_labels) ==
  IF restrict_labels THEN Multiply(x, TiledMasks(mask)) ELSE x

InitMask ==
  /\ ClipIdle /\ CtorDone /\ CliIdle
  /\ \E rl \in BOOLEAN : InitModel(rl)
  /\ epochs_left = 0
  /\ train_corpus = << >>
  /\ test_corpus = << >>
  /\ logits \in [Rows -> [Tokens -> [Roles -> LogitValues]]]
  /\ labels_mask \in [Rows -> [Roles -> MaskValues]]
  /\ softmax_logits = None
  /\ xent_logits = None

\* session.run of self.predictions and self.loss: tf.nn.softmax(logits) and
\* sparse_softmax_cross_entropy_with_logits(logits=logits) read the same
\* tensor.
RunForward ==
  /\ softmax_logits = None
  /\ softmax_logits' = Some(BoundLogits(logits, labels_mask, args_restrict_labels))
  /\ xent_logits' = Some(BoundLogits(logits, labels_mask, args_restrict_labels))
  /\ UNCHANGED <<logits, labels_mask>>
  /\ UNCHANGED <<loopVars, clipVars, ctorVars, cliVars>>

NextMask == RunForward

SpecMask == InitMask /\ [][NextMask]_vars

\* The logit of role r at token t of sentence b that an op reads.
UsedLogit(o, b, t, r) == Value(o)[b][t][r]

\* C5: with label restriction enabled, for every sentence, token and role
\* the logit the softmax reads and the logit the cross-entropy reads are
\* the same, exactly 0 where the sentence's mask is 0 and the raw logit where
\* it is 1.
C5_MaskedLogitIsZero ==
  (args_restrict_labels /\ softmax_logits # None) =>
    \A b \in Rows : \A t \in Tokens : \A r \in Roles :
      /\ UsedLogit(softmax_logits, b, t, r) = UsedLogit(xent_logits, b, t, r)
      /\ labels_mask[b][r] = 0 => UsedLogit(softmax_logits, b, t, r) = 0
      /\ labels_mask[b][r] = 1 => UsedLogit(softmax_logits, b, t, r) = logits[b][t][r]

\* A masked role whose logit, 0, lies above the raw logit of a licensed role
\* of the same row, while another sentence of the batch keeps the role.
C5_Witness ==
  /\ args_restrict_labels /\ softmax_logits # None
  /\ \E b \in Rows : \E t \in Tokens : \E r, q \in Roles :
       /\ labels_mask[b][r] = 0 /\ logits[b][t][r] = 2
       /\ labels_mask[b][q] = 1 /\ logits[b][t][q] = -1
       /\ UsedLogit(softmax_logits, b, t, r) > UsedLogit(softmax_logits, b, t, q)
       /\ \E c \in Rows : labels_mask[c][r] = 1

\* ------------------------------------------------------------------------
\* Gradient clipping (srl.py, lines 271-277), run for one training batch

\* The trainable variables srl.py creates itself.
TrainVars == {"role_embeddings", "Up", "Ur", "b"}

\* Gradient values are multiples of 1/GradUnit, up to MaxGrad in size.
GradUnit == 2
MaxGrad == 2
GradValues == (0 - MaxGrad * GradUnit)..(MaxGrad * GradUnit)

\* tf.clip_by_value(grad, -1., 1.)
ClipFromAboveOnly(g) == IF g > GradUnit THEN GradUnit ELSE g
ClipByValue(g) == IF g < 0 - GradUnit THEN 0 - GradUnit
                  ELSE IF g > GradUnit THEN GradUnit ELSE g

InitClip ==
  /\ MaskIdle /\ CtorDone /\ CliIdle
  /\ InitModel(FALSE)
  /\ epochs_left = 0
  /\ train_corpus = << >>
  /\ test_corpus = << >>
  /\ gvs = None
  /\ clipped_gvs = None
  /\ applied = None

\* gvs = optimizer.compute_gradients(loss), evaluated
ComputeGradients ==
  /\ gvs = None
  /\ \E g \in [TrainVars -> GradValues] : gvs' = Some(g)
  /\ UNCHANGED <<clipped_gvs, applied>>
  /\ UNCHANGED <<loopVars, maskVars, ctorVars, cliVars>>

\* clipped_gvs = [(tf.clip_by_value(grad, -1., 1.), var) for grad, var in gvs]
ClipGradients ==
  /\ gvs # None /\ clipped_gvs = None
  /\ clipped_gvs' = Some([v \in TrainVars |-> ClipByValue(Value(gvs)[v])])
  /\ UNCHANGED <<gvs, applied>>
  /\ UNCHANGED <<loopVars, maskVars, ctorVars, cliVars>>

\* train_op = optimizer.apply_gradients(clipped_gvs)
ApplyGradients ==
  /\ clipped_gvs # None /\ applied = None
  /\ applied' = clipped_gvs
  /\ UNCHANGED <<gvs, clipped_gvs>>
  /\ UNCHANGED <<loopVars, maskVars, ctorVars, cliVars>>

NextClip == ComputeGradients \/ ClipGradients \/ ApplyGradients

SpecClip == InitClip /\ [][NextClip]_vars

\* C6: every gradient value given to the apply step lies in [-1, 1]: it is
\* -1 where the computed gradient is below -1, 1 where it is above 1 and the
\* computed gradient itself in between, for every trainable variable.
C6_AppliedGradientsClipped ==
  applied # None =>
    \A v \in TrainVars :
      LET g == Value(gvs)[v]
          a == Value(applied)[v]
      IN  /\ 0 - GradUnit <= a /\ a <= GradUnit
          /\ g < 0 - GradUnit => a = 0 - GradUnit
          /\ g > GradUnit => a = GradUnit
          /\ (0 - GradUnit <= g /\ g <= GradUnit) => a = g

\* One gradient below -1, one above 1, one strictly inside the range.
C6_Witness ==
  /\ applied # None
  /\ Value(gvs)["Up"] < 0 - GradUnit /\ Value(applied)["Up"] = 0 - GradUnit
  /\ Value(gvs)["Ur"] > GradUnit /\ Value(applied)["Ur"] = GradUnit
  /\ Value(gvs)["b"] = 1 /\ Value(applied)["b"] = 1

\* ------------------------------------------------------------------------
\* SRL_Model.__init__ and standard output (srl.py, lines 19-23 and 27-298)

\* The texts the process writes while and after the model is built.
MaxPrints == 2

InitCtor ==
  /\ MaskIdle /\ ClipIdle /\ CliIdle
  /\ \E rl \in BOOLEAN : InitModel(rl)
  /\ epochs_left = 0
  /\ train_corpus = << >>
  /\ test_corpus = << >>
  /\ ctor_pc = "start"
  /\ args_optimizer \in {"adadelta", "adam", "sgd"}
  /\ optimizer = "none"
  /\ sys_stdout \in {"console", "logfile"}
  /\ stdout_at_entry = sys_stdout
  /\ redirect_stdout = None
  /\ console = << >>
  /\ discarded = << >>

\* sys.stdout.write(text): Redirect.write drops the text.
WriteToStdout(text) ==
  IF sys_stdout = "redirect"
  THEN /\ discarded' = Append(discarded, text)
       /\ UNCHANGED console
  ELSE /\ console' = Append(console, <<sys_stdout, text>>)
       /\ UNCHANGED discarded

\* Placeholders to the loss op.
CtorBuildGraph ==
  /\ ctor_pc = "start"
  /\ ctor_pc' = "graph"
  /\ UNCHANGED <<args_optimizer, optimizer, sys_stdout, redirect_stdout,
                 stdout_at_entry, console, discarded>>
  /\ UNCHANGED <<loopVars, maskVars, clipVars, cliVars>>

\* if args.optimizer == 'adadelta': ... else: ...
CtorMakeOptimizer ==
  /\ ctor_pc = "graph"
  /\ optimizer' = IF args_optimizer = "adadelta" THEN "adadelta" ELSE "adam"
  /\ ctor_pc' = "optimizer"
  /\ UNCHANGED <<args_optimizer, sys_stdout, redirect_stdout,
                 stdout_at_entry, console, discarded>>
  /\ UNCHANGED <<loopVars, maskVars, clipVars, cliVars>>

\* redirect = Redirect(); sys.stdout = redirect
CtorRedirect ==
  /\ ctor_pc = "optimizer"
  /\ redirect_stdout' = Some(sys_stdout)
  /\ sys_stdout' = "redirect"
  /\ ctor_pc' = "computing"
  /\ UNCHANGED <<args_optimizer, optimizer, stdout_at_entry, console, discarded>>
  /\ UNCHANGED <<loopVars, maskVars, clipVars, cliVars>>

\* compute_gradients prints some of the split gradients.
GradientPrint ==
  /\ ctor_pc = "computing"
  /\ Len(console) + Len(discarded) < MaxPrints
  /\ WriteToStdout("gradients")
  /\ UNCHANGED <<ctor_pc, args_optimizer, optimizer, sys_stdout, redirect_stdout,
                 stdout_at_entry>>
  /\ UNCHANGED <<loopVars, maskVars, clipVars, cliVars>>

\* gvs = optimizer.compute_gradients(loss) returns, and the next statement
\* is sys.stdout = redirect.stdout
ComputeGradientsReturn ==
  /\ ctor_pc = "computing"
  /\ sys_stdout' = Value(redirect_stdout)
  /\ ctor_pc' = "restored"
  /\ UNCHANGED <<args_optimizer, optimizer, redirect_stdout,
                 stdout_at_entry, console, discarded>>
  /\ UNCHANGED <<loopVars, maskVars, clipVars, cliVars>>

\* optimizer.compute_gradients(loss) raises: the exception leaves __init__,
\* no handler or finally clause stands between.
ComputeGradientsRaise ==
  /\ ctor_pc = "computing"
  /\ ctor_pc' = "failed"
  /\ UNCHANGED <<args_optimizer, optimizer, sys_stdout, redirect_stdout,
                 stdout_at_entry, console, discarded>>
  /\ UNCHANGED <<loopVars, maskVars, clipVars, cliVars>>

\* clipped_gvs, train_op and the attributes of the model.
CtorFinish ==
  /\ ctor_pc = "restored"
  /\ ctor_pc' = "done"
  /\ training_batches' = None
  /\ testing_batches' = None
  /\ UNCHANGED <<args_optimizer, optimizer, sys_stdout, redirect_stdout,
                 stdout_at_entry, console, discarded>>
  /\ UNCHANGED <<args_restrict_labels, test_batches, params, pc, i, total_loss,
                 num_batches, predicted_sents, result, epochs_left, train_corpus,
                 test_corpus, sent_preds, fn_sys, producer_calls, producer_done,
                 calls_at_start, ran, add_calls, wrote, params_at_start, last_kind,
                 prev_eval>>
  /\ UNCHANGED <<maskVars, clipVars, cliVars>>

\* The process prints after __init__ has ended.
ProgramPrint ==
  /\ ctor_pc \in {"done", "failed"}
  /\ Len(console) + Len(discarded) < MaxPrints
  /\ WriteToStdout("progress")
  /\ UNCHANGED <<ctor_pc, args_optimizer, optimizer, sys_stdout, redirect_stdout,
                 stdout_at_entry>>
  /\ UNCHANGED <<loopVars, maskVars, clipVars, cliVars>>

NextCtor ==
  \/ CtorBuildGraph
  \/ CtorMakeOptimizer
  \/ CtorRedirect
  \/ GradientPrint
  \/ ComputeGradientsReturn
  \/ ComputeGradientsRaise
  \/ CtorFinish
  \/ ProgramPrint

SpecCtor == InitCtor /\ [][NextCtor]_vars

\* C7: standard output is the discarding sink only while the gradients are
\* being constructed, and when __init__ has ended, normally or by failure,
\* sys.stdout is the stream it was before.
C7_StdoutRestoredOnAllPaths ==
  /\ sys_stdout = "redirect" => ctor_pc = "computing"
  /\ ctor_pc \in {"done", "failed"} => sys_stdout = stdout_at_entry

\* ------------------------------------------------------------------------
\* The evaluation entry point (test_ens.py)

\* choices=['train', 'test', 'dev', 'ood']
DataChoices == {"train", "test", "dev", "ood"}

InitCli ==
  /\ MaskIdle /\ ClipIdle /\ CtorDone
  /\ InitModel(FALSE)
  /\ epochs_left = 0
  /\ train_corpus = << >>
  /\ test_corpus \in ShapeCorpora
  /\ cli_pc = "start"
  /\ \E d \in DataChoices, rl \in BOOLEAN :
       cli_args = Some([data |-> d, restrict_labels |-> rl])
  /\ \E rl \in BOOLEAN, lang \in {None, Some("eng"), Some("spa")} :
       pickled_args = Some([restrict_labels |-> rl, language |-> lang])
  /\ model_args = None

\* model_args = pickle.load(f); the language default; stags_dir
CliLoadArgs ==
  /\ cli_pc = "start"
  /\ model_args' = Some([restrict_labels |-> Value(pickled_args).restrict_labels,
                         language |-> IF Value(pickled_args).language = None
                                      THEN "eng"
                                      ELSE Value(Value(pickled_args).language),
                         stags_dir |-> "pred"])
  /\ cli_pc' = "loaded"
  /\ UNCHANGED <<cli_args, pickled_args>>
  /\ UNCHANGED <<loopVars, maskVars, clipVars, ctorVars>>

\* The file names, the vocabularies and model = SRL_Model_Ens(vocabs, model_args):
\* the model keeps the arguments it is given (self.args = args).
CliBuildModel ==
  /\ cli_pc = "loaded"
  /\ args_restrict_labels' = Value(model_args).restrict_labels
  /\ training_batches' = None
  /\ testing_batches' = None
  /\ cli_pc' = "built"
  /\ UNCHANGED <<cli_args, pickled_args, model_args>>
  /\ UNCHANGED <<test_batches, params, pc, i, total_loss,
                 num_batches, predicted_sents, result, epochs_left, train_corpus,
                 test_corpus, sent_preds, fn_sys, producer_calls, producer_done,
                 calls_at_start, ran, add_calls, wrote, params_at_start, last_kind,
                 prev_eval>>
  /\ UNCHANGED <<maskVars, clipVars, ctorVars>>

\* saver.restore(...); then the one call of model.run_testing_epoch is due.
CliRestore ==
  /\ cli_pc = "built"
  /\ cli_pc' = "validating"
  /\ epochs_left' = 1
  /\ UNCHANGED <<cli_args, pickled_args, model_args>>
  /\ UNCHANGED <<args_restrict_labels, training_batches, testing_batches, test_batches,
                 params, pc, i, total_loss,
                 num_batches, predicted_sents, result, train_corpus,
                 test_corpus, sent_preds, fn_sys, producer_calls, producer_done,
                 calls_at_start, ran, add_calls, wrote, params_at_start, last_kind,
                 prev_eval>>
  /\ UNCHANGED <<maskVars, clipVars, ctorVars>>

\* run_testing_epoch returned: the loss is printed and the evaluation script run.
CliReport ==
  /\ cli_pc = "validating" /\ pc = "idle" /\ result.kind = "return"
  /\ cli_pc' = "done"
  /\ UNCHANGED <<cli_args, pickled_args, model_args>>
  /\ UNCHANGED <<loopVars, maskVars, clipVars, ctorVars>>

\* run_testing_epoch raised: the exception leaves test(args).
CliAbort ==
  /\ cli_pc = "validating" /\ pc = "idle" /\ result.kind = "raise"
  /\ cli_pc' = "failed"
  /\ UNCHANGED <<cli_args, pickled_args, model_args>>
  /\ UNCHANGED <<loopVars, maskVars, clipVars, ctorVars>>

NextCli ==
  \/ CliLoadArgs
  \/ CliBuildModel
  \/ CliRestore
  \/ TestEpochBegin
  \/ TestEpochLoadFail
  \/ TestBatchOk
  \/ TestBatchRaise
  \/ TestEpochReturn
  \/ CliReport
  \/ CliAbort

SpecCli == InitCli /\ [][NextCli]_vars

\* C8: when the entry point is run with -rl / --restrict_labels, the
\* restrict_labels value the model holds and every restrict_labels value
\* passed to add_predictions is true, whatever args.pkl holds.
C8_FlagRestrictsLabels ==
  (cli_pc \in {"validating", "done", "failed"} /\ Value(cli_args).restrict_labels) =>
    \A s \in Sents :
      sent_preds[s] # None =>
        /\ args_restrict_labels = TRUE
        /\ Value(sent_preds[s]).restrict_labels = TRUE

====
